---- MODULE Spec2Model ----
(***************************************************************************)
(* Model of the chat relay server (src/server.js): the express handlers    *)
(* for /api/health, /api/model-info, /api/switch-model, /api/chat,         *)
(* /api/chat/stream and /api/chat/multimodal, the upstream (Ollama) calls  *)
(* they make, and the stream listeners of /api/chat/stream.                *)
(*                                                                         *)
(* One client request is in progress at a time; a new request is received  *)
(* once the previous one is answered.  A handler runs atomically up to its *)
(* await; the resolution or rejection of the awaited upstream call is a    *)
(* separate step, and so is every stream event.                            *)
(***************************************************************************)
EXTENDS Integers, Sequences, FiniteSets, TLC

VARIABLES
    MODEL_NAME,       \* process configuration: the model name
    pc,               \* "idle" | "received" | "awaiting" | "streaming" | "done"
    endpoint,         \* the endpoint of the request in progress
    req,              \* req.body of the request in progress
    upstreamReq,      \* the upstream request in flight
    calls,            \* upstream chat calls made for the request in progress
    upstreamResult,   \* how the awaited upstream call settled
    res,              \* the express response object
    upBody,           \* bytes of the upstream streaming body
    upPos,            \* number of bytes of upBody already emitted as chunks
    upState,          \* response.data: "none" | "open" | "ended" | "errored"
    clientConnected,  \* the client socket is still open
    switchedTo        \* new_model of the last successful switch-model answer

vars == << MODEL_NAME, pc, endpoint, req, upstreamReq, calls, upstreamResult,
           res, upBody, upPos, upState, clientConnected, switchedTo >>

-----------------------------------------------------------------------------
(* Bounds of the model *)

MaxImages == 2
MaxHistory == 2
MaxLines == 2

-----------------------------------------------------------------------------
(* Values *)

Undefined == "<undefined>"

ConfiguredModel == "gemma3:1b"

SYSTEM_PROMPT == "You are Gemma3:1b, a helpful AI assistant. ..."

RECURSIVE SeqsUpTo(_, _)
SeqsUpTo(S, n) ==
    IF n = 0 THEN { <<>> }
    ELSE LET shorter == SeqsUpTo(S, n - 1)
         IN  shorter \cup { Append(s, e) : s \in shorter, e \in S }

\* A piece of composed text.  Template strings are kept as the sequence of
\* the pieces they are made of.
Tok(kind, text, n, name, mime) ==
    [kind |-> kind, text |-> text, n |-> n, name |-> name, mime |-> mime]

TextTok(s)        == Tok("text", s, 0, "", "")
AttachedTok(n, s) == Tok("attached", s, n, "", "")
NewlineTok        == Tok("nl", "", 0, "", "")
BlankLineTok      == Tok("nlnl", "", 0, "", "")
TextPart(s)       == Tok("part_text", s, 0, "", "")
ImagePart(mime)   == Tok("part_image", "[image_data_here]", 0, "", mime)

\* The text of a JS string: the empty string has no pieces.
StrOf(s) == IF s = "" THEN <<>> ELSE << TextTok(s) >>

StringContent(toks) == [type |-> "string", val |-> toks]
ArrayContent(parts) == [type |-> "array", val |-> parts]

Turn(role, content, extra) == [role |-> role, content |-> content, extra |-> extra]

ImageDescriptors ==
    { [name |-> "a.png", type |-> "image/png"],
      [name |-> "b.jpg", type |-> "image/jpeg"] }

HistoryTurns ==
    { Turn("user", StringContent(StrOf("q")), "none"),
      Turn("assistant", StringContent(StrOf("r")), "ts") }

Messages == { Undefined, "", "hi" }

ModelNames == { Undefined, "llava" }

ReqBody(message, hasImages, images, hasHistory, history, model) ==
    [message |-> message, hasImages |-> hasImages, images |-> images,
     hasHistory |-> hasHistory, conversation_history |-> history,
     model |-> model]

NoReq == ReqBody(Undefined, FALSE, <<>>, FALSE, <<>>, Undefined)

ChatBodies ==
    { ReqBody(m, hi, im, hh, h, Undefined) :
        m \in Messages,
        hi \in BOOLEAN, im \in SeqsUpTo(ImageDescriptors, MaxImages),
        hh \in BOOLEAN, h \in SeqsUpTo(HistoryTurns, MaxHistory) }

\* A field that is absent carries no value.
WellFormedBody(b) ==
    /\ (~b.hasImages => b.images = <<>>)
    /\ (~b.hasHistory => b.conversation_history = <<>>)

\* JS truthiness of a string-valued field
Truthy(s) == s # Undefined /\ s # ""

NoJson == [kind |-> "none", error |-> "", model |-> "", n |-> 0]
ErrorJson(msg) == [kind |-> "error", error |-> msg, model |-> "", n |-> 0]

FreshRes == [status |-> 200, json |-> NoJson, writes |-> <<>>, ended |-> FALSE]

\* res.status(s).json(j)
SendJson(r, s, j) == [r EXCEPT !.status = s, !.json = j, !.ended = TRUE]

NoUpstreamReq == [url |-> "none", model |-> "", messages |-> <<>>, stream |-> FALSE]

\* An axios rejection: error.code and error.response.status (0: no response)
UpstreamErrors ==
    { [code |-> "ECONNREFUSED", status |-> 0],
      [code |-> "ECONNABORTED", status |-> 0],
      [code |-> "ERR_BAD_REQUEST", status |-> 404],
      [code |-> "ERR_BAD_RESPONSE", status |-> 500] }

-----------------------------------------------------------------------------
(* Message composition *)

\* const { images = [], conversation_history = [] } = req.body
ImagesOf(b)  == IF b.hasImages THEN b.images ELSE <<>>
HistoryOf(b) == IF b.hasHistory THEN b.conversation_history ELSE <<>>

\* Variant: validation that looks at the message only
RejectedWithoutMessage(b) == ~Truthy(b.message)

\* if (!message && images.length === 0) return res.status(400)...
Rejected(b) == ~Truthy(b.message) /\ Len(ImagesOf(b)) = 0

\* Variant: history emitted newest first
MapHistoryReversed(h) ==
    [i \in 1..Len(h) |-> Turn(h[Len(h) + 1 - i].role, h[Len(h) + 1 - i].content, "none")]

\* conversation_history.map(msg => ({ role: msg.role, content: msg.content }))
MapHistory(h) == [i \in 1..Len(h) |-> Turn(h[i].role, h[i].content, "none")]

\* images.forEach((img, index) => userMessage += `\nImage ${index + 1}: ...`)
RECURSIVE ImageLines(_, _)
ImageLines(images, index) ==
    IF index > Len(images) THEN <<>>
    ELSE << NewlineTok,
            Tok("image", "", index, images[index].name, images[index].type) >>
         \o ImageLines(images, index + 1)

\* message || ''
MessageOrEmpty(m) == IF Truthy(m) THEN StrOf(m) ELSE <<>>

ChatUserMessage(b) ==
    LET images == ImagesOf(b)
        userMessage == MessageOrEmpty(b.message)
    IN  IF Len(images) > 0
        THEN (IF userMessage # <<>>
              THEN userMessage \o << BlankLineTok, AttachedTok(Len(images), "respond") >>
              ELSE << AttachedTok(Len(images), "describe") >>)
             \o ImageLines(images, 1)
        ELSE userMessage

ChatMessages(b) ==
    << Turn("system", StringContent(StrOf(SYSTEM_PROMPT)), "none") >>
    \o MapHistory(HistoryOf(b))
    \o << Turn("user", StringContent(ChatUserMessage(b)), "none") >>

StreamUserMessage(b) ==
    LET images == ImagesOf(b)
        userMessage == MessageOrEmpty(b.message)
    IN  IF Len(images) > 0
        THEN (IF userMessage # <<>>
              THEN userMessage \o << BlankLineTok, AttachedTok(Len(images), "plain") >>
              ELSE << AttachedTok(Len(images), "plain") >>)
        ELSE userMessage

StreamMessages(b) ==
    << Turn("system", StringContent(StrOf(SYSTEM_PROMPT)), "none") >>
    \o MapHistory(HistoryOf(b))
    \o << Turn("user", StringContent(StreamUserMessage(b)), "none") >>

MultimodalUserContent(b) ==
    LET images == ImagesOf(b)
    IN  (IF Truthy(b.message) THEN << TextPart(b.message) >> ELSE <<>>)
        \o [i \in 1..Len(images) |-> ImagePart(images[i].type)]

MultimodalMessages(b) ==
    << Turn("system", StringContent(StrOf(SYSTEM_PROMPT)), "none") >>
    \o HistoryOf(b)
    \o << Turn("user", ArrayContent(MultimodalUserContent(b)), "none") >>

\* const modelToUse = customModel || MODEL_NAME
ModelToUse(b, configured) == IF Truthy(b.model) THEN b.model ELSE configured

-----------------------------------------------------------------------------
(* Catch blocks *)

\* /api/chat: 503 on ECONNREFUSED, upstream status passed through, else 500
ChatCatch(r, error) ==
    IF error.code = "ECONNREFUSED"
    THEN SendJson(r, 503, ErrorJson("Ollama is not running. Please start Ollama first."))
    ELSE IF error.status # 0
         THEN SendJson(r, error.status, ErrorJson("Ollama API error"))
         ELSE SendJson(r, 500, ErrorJson("Internal server error"))

\* /api/chat/stream: every failure of the stream setup
StreamCatch(r, error) == SendJson(r, 500, ErrorJson("Stream setup failed"))

\* /api/chat/multimodal
MultimodalCatch(r, error) ==
    IF error.code = "ECONNREFUSED"
    THEN SendJson(r, 503, ErrorJson("Ollama is not running"))
    ELSE IF error.status = 404
         THEN SendJson(r, 404, ErrorJson("Model not found or not multimodal"))
         ELSE SendJson(r, 500, ErrorJson("Multimodal chat failed"))

-----------------------------------------------------------------------------
(* The upstream streaming body and the 'data' listener *)

NL == "\n"
Letters == { "a", "b" }

\* The lines an upstream body is made of: a frame {"message":{"content":c}}
\* is written "{" c "}", a frame without content (such as the final
\* {"done":true}) "{" "}", anything else is not JSON.
DeltaLine(c) == << "{", c, "}" >>
NoContentLine == << "{", "}" >>
MalformedLine == << "x" >>
BlankLine     == << " " >>

LineKinds == { DeltaLine(c) : c \in Letters } \cup { NoContentLine, MalformedLine, BlankLine }

RECURSIVE Terminated(_)
Terminated(lines) ==
    IF lines = <<>> THEN <<>>
    ELSE Head(lines) \o << NL >> \o Terminated(Tail(lines))

\* Upstream bodies: up to MaxLines newline-terminated lines, then possibly
\* one line that is not newline-terminated.
Bodies ==
    { Terminated(ls) \o t : ls \in SeqsUpTo(LineKinds, MaxLines),
                            t \in LineKinds \cup { <<>> } }

\* chunk.toString().split('\n'), each piece with the offset in the body of
\* its first byte
RECURSIVE SplitLines(_, _)
SplitLines(s, off) ==
    IF \A i \in 1..Len(s) : s[i] # NL
    THEN << [src |-> off, text |-> s] >>
    ELSE LET k == CHOOSE i \in 1..Len(s) :
                     s[i] = NL /\ \A j \in 1..(i - 1) : s[j] # NL
         IN  << [src |-> off, text |-> SubSeq(s, 1, k - 1)] >>
             \o SplitLines(SubSeq(s, k + 1, Len(s)), off + k)

\* line.trim()
RECURSIVE Trim(_)
Trim(s) ==
    IF s = <<>> THEN s
    ELSE IF Head(s) = " " THEN Trim(Tail(s))
    ELSE IF s[Len(s)] = " " THEN Trim(SubSeq(s, 1, Len(s) - 1))
    ELSE s

\* .filter(line => line.trim())
NonBlank(lines) == SelectSeq(lines, LAMBDA l : Trim(l.text) # <<>>)

\* JSON.parse(line): ok is FALSE when it throws; content is
\* data.message.content, empty when the frame has none
Parse(line) ==
    LET t == Trim(line)
    IN  IF /\ Len(t) >= 2
           /\ t[1] = "{"
           /\ t[Len(t)] = "}"
           /\ \A i \in 2..(Len(t) - 1) : t[i] \in Letters
        THEN [ok |-> TRUE, content |-> SubSeq(t, 2, Len(t) - 1)]
        ELSE [ok |-> FALSE, content |-> <<>>]

\* Variant: a write that lands in front of the earlier ones
ResWriteInFront(r, w, connected) ==
    IF connected /\ ~r.ended
    THEN [r EXCEPT !.writes = << w >> \o @]
    ELSE r

\* res.write(text): appended to what the client receives; a write on a
\* response whose socket is gone is dropped
ResWrite(r, w, connected) ==
    IF connected /\ ~r.ended
    THEN [r EXCEPT !.writes = Append(@, w)]
    ELSE r

\* for (const line of lines) { JSON.parse(line); ... res.write(...) } inside
\* one try block: the first line that does not parse ends the loop
RECURSIVE ProcessLines(_, _, _)
ProcessLines(r, lines, connected) ==
    IF lines = <<>> THEN r
    ELSE LET data == Parse(Head(lines).text)
         IN  IF ~data.ok THEN r
             ELSE ProcessLines(
                    IF data.content # <<>>
                    THEN ResWrite(r, [text |-> data.content, src |-> Head(lines).src], connected)
                    ELSE r,
                    Tail(lines), connected)

\* response.data.on('data', chunk => ...)
OnData(r, chunk, off, connected) ==
    ProcessLines(r, NonBlank(SplitLines(chunk, off)), connected)

\* response.data.on('end', () => res.end())
OnStreamEnd(r) == [r EXCEPT !.ended = TRUE]

\* Variant: an error listener that reports the failure as JSON
OnStreamErrorWithJson(r) == SendJson(r, 500, ErrorJson("Stream failed"))

\* response.data.on('error', error => res.end())
OnStreamError(r) == [r EXCEPT !.ended = TRUE]

\* Variant: a switch that is persisted
ModelAfterSwitchPersisted(current, requested) == requested

\* switch-model does not persist the switch
ModelAfterSwitch(current, requested) == current

\* The text the client has received
RECURSIVE Flatten(_)
Flatten(ws) == IF ws = <<>> THEN <<>> ELSE Head(ws).text \o Flatten(Tail(ws))

ClientText == Flatten(res.writes)

-----------------------------------------------------------------------------
(* Initial state *)

Init ==
    /\ MODEL_NAME = ConfiguredModel
    /\ pc = "idle"
    /\ endpoint = "none"
    /\ req = NoReq
    /\ upstreamReq = NoUpstreamReq
    /\ calls = 0
    /\ upstreamResult = "none"
    /\ res = FreshRes
    /\ upBody = <<>>
    /\ upPos = 0
    /\ upState = "none"
    /\ clientConnected = TRUE
    /\ switchedTo = "none"

-----------------------------------------------------------------------------
(* Handlers up to their first await *)

Endpoints ==
    { "/api/health", "/api/model-info", "/api/switch-model",
      "/api/chat", "/api/chat/stream", "/api/chat/multimodal" }

\* express accepts a request and routes it: fresh req and res objects, no
\* upstream stream yet
Receive ==
    \E ep \in Endpoints :
        /\ pc \in { "idle", "done" }
        /\ pc' = "received"
        /\ endpoint' = ep
        /\ req' = NoReq
        /\ res' = FreshRes
        /\ upstreamReq' = NoUpstreamReq
        /\ calls' = 0
        /\ upstreamResult' = "none"
        /\ upBody' = <<>>
        /\ upPos' = 0
        /\ upState' = "none"
        /\ clientConnected' = TRUE
        /\ UNCHANGED << MODEL_NAME, switchedTo >>

\* The handler of endpoint ep starts on the parsed body
Accept(ep, body) ==
    /\ pc = "received"
    /\ endpoint = ep
    /\ req' = body
    /\ UNCHANGED << MODEL_NAME, endpoint, upstreamResult, upBody, upPos,
                    upState, clientConnected, switchedTo >>

\* The handler answered without calling upstream
AnswerNow(r) ==
    /\ res' = r
    /\ pc' = "done"
    /\ upstreamReq' = NoUpstreamReq
    /\ calls' = 0

\* The handler called upstream and awaits
CallChat(model, messages, stream) ==
    /\ res' = FreshRes
    /\ pc' = "awaiting"
    /\ upstreamReq' = [url |-> "/api/chat", model |-> model,
                       messages |-> messages, stream |-> stream]
    /\ calls' = 1

CallTags ==
    /\ res' = FreshRes
    /\ pc' = "awaiting"
    /\ upstreamReq' = [url |-> "/api/tags", model |-> "",
                       messages |-> <<>>, stream |-> FALSE]
    /\ calls' = 0

HealthRequest ==
    /\ Accept("/api/health", NoReq)
    /\ AnswerNow(SendJson(FreshRes, 200,
           [kind |-> "health", error |-> "", model |-> MODEL_NAME, n |-> 0]))

ChatRequest ==
    \E b \in ChatBodies :
        /\ WellFormedBody(b)
        /\ Accept("/api/chat", b)
        /\ IF Rejected(b)
           THEN AnswerNow(SendJson(FreshRes, 400, ErrorJson("Message or images are required")))
           ELSE CallChat(MODEL_NAME, ChatMessages(b), FALSE)

StreamRequest ==
    \E b \in ChatBodies :
        /\ WellFormedBody(b)
        /\ Accept("/api/chat/stream", b)
        /\ IF Rejected(b)
           THEN AnswerNow(SendJson(FreshRes, 400, ErrorJson("Message or images are required")))
           ELSE CallChat(MODEL_NAME, StreamMessages(b), TRUE)

MultimodalRequest ==
    \E b \in ChatBodies, m \in ModelNames :
        LET body == [b EXCEPT !.model = m]
        IN  /\ WellFormedBody(body)
            /\ Accept("/api/chat/multimodal", body)
            /\ IF Rejected(body)
               THEN AnswerNow(SendJson(FreshRes, 400, ErrorJson("Message or images are required")))
               ELSE CallChat(ModelToUse(body, MODEL_NAME), MultimodalMessages(body), FALSE)

ModelInfoRequest ==
    /\ Accept("/api/model-info", NoReq)
    /\ CallTags

SwitchModelRequest ==
    \E m \in ModelNames \cup { "" } :
        /\ Accept("/api/switch-model", [NoReq EXCEPT !.model = m])
        /\ IF ~Truthy(m)
           THEN AnswerNow(SendJson(FreshRes, 400, ErrorJson("Model name is required")))
           ELSE CallTags

-----------------------------------------------------------------------------
(* Continuations after the awaited upstream call *)

Awaiting(ep) == pc = "awaiting" /\ endpoint = ep

\* The awaited call settled and the handler answered
Settle(result, r) ==
    /\ upstreamResult' = result
    /\ res' = r
    /\ pc' = "done"
    /\ upstreamReq' = NoUpstreamReq
    /\ UNCHANGED << endpoint, req, calls, upBody, upPos, upState,
                    clientConnected >>

ChatResolve ==
    /\ Awaiting("/api/chat")
    /\ Settle("resolved", SendJson(res, 200,
           [kind |-> "chat", error |-> "", model |-> MODEL_NAME,
            n |-> Len(ImagesOf(req))]))
    /\ UNCHANGED << MODEL_NAME, switchedTo >>

ChatReject ==
    \E error \in UpstreamErrors :
        /\ Awaiting("/api/chat")
        /\ Settle(error.code, ChatCatch(res, error))
        /\ UNCHANGED << MODEL_NAME, switchedTo >>

MultimodalResolve ==
    /\ Awaiting("/api/chat/multimodal")
    /\ Settle("resolved", SendJson(res, 200,
           [kind |-> "multimodal", error |-> "",
            model |-> ModelToUse(req, MODEL_NAME),
            n |-> Len(ImagesOf(req))]))
    /\ UNCHANGED << MODEL_NAME, switchedTo >>

MultimodalReject ==
    \E error \in UpstreamErrors :
        /\ Awaiting("/api/chat/multimodal")
        /\ Settle(error.code, MultimodalCatch(res, error))
        /\ UNCHANGED << MODEL_NAME, switchedTo >>

ModelInfoResolve ==
    /\ Awaiting("/api/model-info")
    /\ Settle("resolved", SendJson(res, 200,
           [kind |-> "model-info", error |-> "", model |-> MODEL_NAME, n |-> 0]))
    /\ UNCHANGED << MODEL_NAME, switchedTo >>

ModelInfoReject ==
    \E error \in UpstreamErrors :
        /\ Awaiting("/api/model-info")
        /\ Settle(error.code, SendJson(res, 500, ErrorJson("Failed to get model info")))
        /\ UNCHANGED << MODEL_NAME, switchedTo >>

\* modelExists: whether upstream lists the requested name
SwitchModelResolve ==
    \E modelExists \in BOOLEAN :
        /\ Awaiting("/api/switch-model")
        /\ IF modelExists
           THEN /\ Settle("resolved", SendJson(res, 200,
                       [kind |-> "switch", error |-> "", model |-> req.model, n |-> 0]))
                /\ switchedTo' = req.model
                /\ MODEL_NAME' = ModelAfterSwitch(MODEL_NAME, req.model)
           ELSE /\ Settle("resolved", SendJson(res, 404, ErrorJson("Model not found")))
                /\ UNCHANGED << MODEL_NAME, switchedTo >>

SwitchModelReject ==
    \E error \in UpstreamErrors :
        /\ Awaiting("/api/switch-model")
        /\ Settle(error.code, SendJson(res, 500, ErrorJson("Failed to switch model")))
        /\ UNCHANGED << MODEL_NAME, switchedTo >>

\* axios.post(..., { responseType: 'stream' }) resolved: the three
\* listeners are attached and the handler returns
StreamResolve ==
    \E body \in Bodies :
        /\ Awaiting("/api/chat/stream")
        /\ upstreamResult' = "resolved"
        /\ pc' = "streaming"
        /\ req' = NoReq
        /\ upstreamReq' = NoUpstreamReq
        /\ upBody' = body
        /\ upPos' = 0
        /\ upState' = "open"
        /\ UNCHANGED << MODEL_NAME, endpoint, calls, res, clientConnected,
                        switchedTo >>

StreamReject ==
    \E error \in UpstreamErrors :
        /\ Awaiting("/api/chat/stream")
        /\ Settle(error.code, StreamCatch(res, error))
        /\ UNCHANGED << MODEL_NAME, switchedTo >>

-----------------------------------------------------------------------------
(* Stream events *)

\* The next k bytes of the upstream body arrive as one chunk
StreamData ==
    \E k \in 1..(Len(upBody) - upPos) :
        /\ pc = "streaming"
        /\ upState = "open"
        /\ res' = OnData(res, SubSeq(upBody, upPos + 1, upPos + k),
                         upPos + 1, clientConnected)
        /\ upPos' = upPos + k
        /\ UNCHANGED << MODEL_NAME, pc, endpoint, req, upstreamReq, calls,
                        upstreamResult, upBody, upState, clientConnected,
                        switchedTo >>

\* Upstream closed the body after its last byte
StreamEnd ==
    /\ pc = "streaming"
    /\ upState = "open"
    /\ upPos = Len(upBody)
    /\ res' = OnStreamEnd(res)
    /\ upState' = "ended"
    /\ pc' = "done"
    /\ UNCHANGED << MODEL_NAME, endpoint, req, upstreamReq, calls,
                    upstreamResult, upBody, upPos, clientConnected,
                    switchedTo >>

\* The upstream connection failed mid-stream
StreamError ==
    /\ pc = "streaming"
    /\ upState = "open"
    /\ res' = OnStreamError(res)
    /\ upState' = "errored"
    /\ pc' = "done"
    /\ UNCHANGED << MODEL_NAME, endpoint, req, upstreamReq, calls,
                    upstreamResult, upBody, upPos, clientConnected,
                    switchedTo >>

\* The client closes its connection while streaming; the handler registers
\* no listener for it
ClientDisconnect ==
    /\ pc = "streaming"
    /\ clientConnected
    /\ clientConnected' = FALSE
    /\ UNCHANGED << MODEL_NAME, pc, endpoint, req, upstreamReq, calls,
                    upstreamResult, res, upBody, upPos, upState, switchedTo >>

-----------------------------------------------------------------------------

Next ==
    \/ Receive
    \/ HealthRequest
    \/ ChatRequest
    \/ StreamRequest
    \/ MultimodalRequest
    \/ ModelInfoRequest
    \/ SwitchModelRequest
    \/ ChatResolve
    \/ ChatReject
    \/ MultimodalResolve
    \/ MultimodalReject
    \/ ModelInfoResolve
    \/ ModelInfoReject
    \/ SwitchModelResolve
    \/ SwitchModelReject
    \/ StreamResolve
    \/ StreamReject
    \/ StreamData
    \/ StreamEnd
    \/ StreamError
    \/ ClientDisconnect

Spec == Init /\ [][Next]_vars

TypeOK ==
    /\ pc \in { "idle", "received", "awaiting", "streaming", "done" }
    /\ calls \in 0..1
    /\ upPos \in 0..Len(upBody)
    /\ upState \in { "none", "open", "ended", "errored" }

-----------------------------------------------------------------------------
(* Properties *)

ChatEndpoints == { "/api/chat", "/api/chat/stream", "/api/chat/multimodal" }

IsPrefix(s, t) == Len(s) <= Len(t) /\ SubSeq(t, 1, Len(s)) = s

\* The newline-terminated lines of s, each with the offset of its first byte
CompleteLines(s, off) ==
    LET pieces == SplitLines(s, off)
    IN  SubSeq(pieces, 1, Len(pieces) - 1)

IsDeltaLine(l) == Parse(l.text).ok /\ Parse(l.text).content # <<>>

\* The deltas of the complete, parseable lines of s, in order
DeltaWrites(s, off) ==
    LET ls == SelectSeq(CompleteLines(s, off), IsDeltaLine)
    IN  [i \in 1..Len(ls) |-> [text |-> Parse(ls[i].text).content, src |-> ls[i].src]]

\* s consists of complete delta lines only
OnlyDeltaLines(s) ==
    /\ s # <<>>
    /\ s[Len(s)] = NL
    /\ \A i \in 1..Len(CompleteLines(s, 1)) : IsDeltaLine(CompleteLines(s, 1)[i])

\* Byte position p of the upstream body is a line boundary
LineBoundary(p) == p = 0 \/ upBody[p] = NL

\* C1: when the upstream body is K complete delta lines and the stream has
\* ended, the client has received the K deltas concatenated in order,
\* however the body was cut into chunks.
C1_RelayAcrossChunkBoundaries ==
    (upState = "ended" /\ clientConnected /\ OnlyDeltaLines(upBody))
        => ClientText = Flatten(DeltaWrites(upBody, 1))

\* C2: a chunk made of complete lines gets every one of its delta lines
\* written, also those that follow a malformed line of the same chunk.
C2_MalformedLineDropped ==
    [][ (/\ pc = "streaming"
         /\ clientConnected
         /\ upPos' > upPos
         /\ LineBoundary(upPos)
         /\ LineBoundary(upPos'))
        => LET ds == DeltaWrites(SubSeq(upBody, upPos + 1, upPos'), upPos + 1)
           IN  \A i \in 1..Len(ds) :
                   \E j \in 1..Len(res'.writes) : res'.writes[j] = ds[i] ]_vars

\* A write is the delta of a piece of the upstream body
IsDeltaOfBody(w) ==
    \E j \in w.src..Len(upBody) :
        LET data == Parse(SubSeq(upBody, w.src, j))
        IN  data.ok /\ data.content = w.text

\* C3: once streaming has begun the status stays 200, no JSON body is sent
\* and only delta text is written; an upstream error closes the response.
C3_StreamErrorClosesCleanly ==
    (upState # "none")
        => /\ res.status = 200
           /\ res.json = NoJson
           /\ \A i \in 1..Len(res.writes) : IsDeltaOfBody(res.writes[i])
           /\ (upState = "errored" => res.ended)

C3_Witness ==
    /\ upState = "errored"
    /\ upPos < Len(upBody)
    /\ res.writes # <<>>
    /\ res.ended

\* The request carries neither a message nor an image
NothingToSend(b) ==
    /\ b.message \in { Undefined, "" }
    /\ (~b.hasImages \/ b.images = <<>>)

\* C4: on the three chat endpoints a request without message and without
\* images is answered 400 with an error field and no upstream call; any
\* other request makes exactly one upstream chat call.
C4_Validation ==
    (endpoint \in ChatEndpoints /\ pc \in { "awaiting", "streaming", "done" })
        => IF upState = "none" /\ NothingToSend(req)
           THEN /\ pc = "done"
                /\ res.status = 400
                /\ res.json.kind = "error"
                /\ res.json.error # ""
                /\ calls = 0
                /\ upstreamReq = NoUpstreamReq
           ELSE /\ calls = 1
                /\ (pc = "awaiting" => upstreamReq.url = "/api/chat")
                /\ ~(res.status = 400 /\ upstreamResult = "none")

C4_Witness ==
    /\ endpoint = "/api/chat/stream"
    /\ pc = "done"
    /\ req.message = ""
    /\ req.hasImages
    /\ req.images = <<>>
    /\ res.status = 400

\* The final turn of the upstream request in flight
FinalTurn == upstreamReq.messages[Len(upstreamReq.messages)]

ImageToks(content) == SelectSeq(content.val, LAMBDA t : t.kind = "image")

\* C5: with N > 0 images, the final user turn that /api/chat and
\* /api/chat/stream send upstream has exactly N "Image i: name (type)" lines,
\* i = 1..N in input order, after the message text.
C5_ImageLines ==
    (/\ pc = "awaiting"
     /\ endpoint \in { "/api/chat", "/api/chat/stream" }
     /\ Len(ImagesOf(req)) > 0)
        => LET images == ImagesOf(req)
               lines == ImageToks(FinalTurn.content)
           IN  /\ Len(lines) = Len(images)
               /\ \A i \in 1..Len(images) :
                      lines[i] = Tok("image", "", i, images[i].name, images[i].type)
               /\ (Truthy(req.message) => FinalTurn.content.val[1] = TextTok(req.message))

\* The upstream message list is system prompt, history, one user turn
ComposedAroundHistory ==
    LET H == IF req.hasHistory THEN req.conversation_history ELSE <<>>
        M == upstreamReq.messages
    IN  /\ Len(M) = Len(H) + 2
        /\ M[1].role = "system"
        /\ M[1].content = StringContent(<< TextTok(SYSTEM_PROMPT) >>)
        /\ \A i \in 1..Len(H) :
               M[i + 1].role = H[i].role /\ M[i + 1].content = H[i].content
        /\ FinalTurn.role = "user"

MessageOnly == Truthy(req.message) /\ ImagesOf(req) = <<>>

\* C6 as stated: on every chat endpoint the list is system, history, one
\* user turn, and for a message without images the content of the user turn
\* is the message itself.
C6_AsStated ==
    (pc = "awaiting" /\ endpoint \in ChatEndpoints)
        => /\ ComposedAroundHistory
           /\ (MessageOnly =>
                  FinalTurn.content = StringContent(<< TextTok(req.message) >>))

\* C6: on every chat endpoint the list is system, history, one user turn;
\* for a message without images the content of the user turn is the message
\* itself on /api/chat and /api/chat/stream, and on /api/chat/multimodal the
\* one-element list holding the message as a text part.
C6_Composition ==
    (pc = "awaiting" /\ endpoint \in ChatEndpoints)
        => /\ ComposedAroundHistory
           /\ (MessageOnly =>
                  FinalTurn.content =
                      IF endpoint = "/api/chat/multimodal"
                      THEN ArrayContent(<< TextPart(req.message) >>)
                      ELSE StringContent(<< TextTok(req.message) >>))

C6_Witness ==
    /\ pc = "awaiting"
    /\ endpoint = "/api/chat/multimodal"
    /\ MessageOnly
    /\ Len(req.conversation_history) = 2
    /\ req.conversation_history[1] # req.conversation_history[2]
    /\ FinalTurn.content = ArrayContent(<< TextPart(req.message) >>)

\* C7: a refused upstream connection is answered 503 with a JSON error on
\* every chat endpoint, after a single upstream call.
C7_Refused503 ==
    (endpoint \in ChatEndpoints /\ upstreamResult = "ECONNREFUSED")
        => /\ pc = "done"
           /\ res.status = 503
           /\ res.json.kind = "error"
           /\ calls = 1
           /\ upstreamReq = NoUpstreamReq

\* C8: after the client disconnects the upstream stream is no longer open
\* and no further chunk is processed.
C8_DisconnectReleasesUpstream ==
    /\ []((upState # "none" /\ ~clientConnected) => upState # "open")
    /\ [][(pc = "streaming" /\ ~clientConnected) => upPos' = upPos]_vars

\* C9: the configured model name never changes: it is what /api/chat and
\* /api/chat/stream send upstream and what /api/health and /api/model-info
\* report, also after a successful switch-model.
C9_ModelReadOnly ==
    /\ MODEL_NAME = ConfiguredModel
    /\ ((endpoint \in { "/api/chat", "/api/chat/stream" } /\ pc = "awaiting")
           => upstreamReq.model = ConfiguredModel)
    /\ (res.json.kind \in { "health", "model-info", "chat" }
           => res.json.model = ConfiguredModel)

C9_Witness ==
    /\ switchedTo \notin { "none", ConfiguredModel }
    /\ endpoint = "/api/chat/stream"
    /\ pc = "awaiting"
    /\ upstreamReq.model = ConfiguredModel

\* C10: within a session the client text only grows by appending, and the
\* written deltas are deltas of the body in increasing order of their source
\* lines, none twice.
C10_AppendOnlyInOrder ==
    /\ [][pc = "streaming" => IsPrefix(ClientText, ClientText')]_vars
    /\ [](\A i \in 1..Len(res.writes) :
             /\ IsDeltaOfBody(res.writes[i])
             /\ \A j \in 1..(i - 1) : res.writes[j].src < res.writes[i].src)

C10_Witness ==
    /\ pc = "streaming"
    /\ Len(res.writes) >= 2
    /\ res.writes[1].text # res.writes[2].text

\* Offset of the first byte of the line of the upstream body that no
\* newline terminates (Len(upBody) + 1 when the body ends with a newline)
UnterminatedStart ==
    LET newlines == { i \in 1..Len(upBody) : upBody[i] = NL }
    IN  IF newlines = {} THEN 1
        ELSE 1 + CHOOSE i \in newlines : \A j \in newlines : j <= i

\* C11: when the upstream stream ends without error the response is closed,
\* and no delta written to the client comes from the final line of the body
\* that was never newline-terminated, parseable or not.
C11_UnterminatedTailDiscarded ==
    /\ (upState = "ended" => res.ended)
    /\ \A i \in 1..Len(res.writes) : res.writes[i].src < UnterminatedStart

====
